---- MODULE Spec2Model ----
(***************************************************************************)
(* Model of the bug tracker's interactive displays of the LOTR mod Discord *)
(* bot: src/src/commands/bug_reports.rs.                                   *)
(*                                                                         *)
(*   display_bugs   the list renderer (a function of its arguments, of     *)
(*                  what the record store returns and of which call fails) *)
(*   buglist        the list command and its navigation loop               *)
(*   bug            the detail command and its Resolve/Close loop          *)
(*                                                                         *)
(* u32 arithmetic is modelled at WordBits bits: a product or a sum that    *)
(* does not fit panics in a build with overflow checks and wraps in one    *)
(* without.                                                                *)
(***************************************************************************)
EXTENDS Integers, Sequences, FiniteSets, TLC

\* ------------------------------------------------------------------ bounds

\* width of the modelled u32
WordBits == 4
\* largest number of records the store holds in the session runs
MaxTotal == 3
\* largest page argument of the session runs
MaxStartPage == 3
\* largest page size of the session runs
MaxLimit == 2
\* clicks that can be in flight to one message
MaxPending == 2
\* seconds that pass in one step of the clock
TickSecs == 30
\* the session age beyond which the clock stops counting it
MaxAge == 90

\* --------------------------------------------------------------- constants

\* Duration::from_secs(60) of both collectors
TimeoutSecs == 60
\* content.len() > 4096
MaxDescriptionLen == 4096

U32Mod == 2 ^ WordBits
U32 == 0 .. (U32Mod - 1)

Min(a, b) == IF a <= b THEN a ELSE b
Max(a, b) == IF a >= b THEN a ELSE b

\* a u32 result in a build without overflow checks
Wrap(x) == x % U32Mod
\* the same result does not fit: a panic in a build with overflow checks
Overflows(x) == x >= U32Mod

\* ------------------------------------------------------------ display_bugs

\* the formatted lines of one window, by their length in bytes
LineLens == {1, 2048, 4096}
\* legacy: Option<bool>
Editions == {"None", "legacy", "renewed"}

\* display_order: BugOrder, after the default has replaced BugOrder::None
Orders == {"latest", "oldest", "highest", "lowest"}

\* what get_bug_list is asked for: status (None: the open bugs; Some: one
\* status), edition and order
Queries == [status : {"open", "status"}, legacy : Editions, order : Orders]

\* the command line names no edition and no order
Filters == { q \in Queries : q.legacy = "None" /\ q.order = "latest" }

OpenQuery == [status |-> "open", legacy |-> "None", order |-> "latest"]

NoQuery == [status |-> "none", legacy |-> "none", order |-> "none"]
ReplyTargets == {"Message", "Interaction"}
\* which call of a handler fails: none (0), the first, the second
FailPoints == 0 .. 2

\* one call to the record store or to the chat surface: the function, whether it
\* succeeded, who sees its reply, the status and the controls it carries
CallWith(fn, ok, to, status, controls) ==
  [fn |-> fn, ok |-> ok, to |-> to, status |-> status, controls |-> controls]

Call(fn, ok) == CallWith(fn, ok, "-", "-", {})

NoRender == [page |-> 0, body |-> "none", bodyLen |-> 0, pages |-> 0, controls |-> {}]

Outcome(res, calls, render, fetched) ==
  [res |-> res, calls |-> calls, render |-> render, fetched |-> fetched]

NoFetch == [filter |-> NoQuery, limit |-> 0, pageIdx |-> 0, content |-> 0]

Pending == Outcome("pending", <<>>, NoRender, NoFetch)

\* the store's window: the number of records of page pageIdx (0-based)
GetBugList(tot, limit, pageIdx) ==
  IF pageIdx * limit >= tot THEN 0 ELSE Min(limit, tot - pageIdx * limit)

\* bugs.iter().map(format).collect().join("\n").len()
ContentLen(bugs, lineLen) == IF bugs = 0 THEN 0 ELSE bugs * lineLen + (bugs - 1)

\* content_alt
ContentAltLen(filter) == IF filter.status = "status" THEN 15 ELSE 27

\* a test that lets one byte more through
TooManyBugsLax(content) == content > MaxDescriptionLen + 1

\* content.len() > 4096
TooManyBugs(content) == content > MaxDescriptionLen

\* ((page - 1) * limit) >= total_bugs
PageTooHigh(page, limit, tot) == Wrap((page - 1) * limit) >= tot

\* a page count that divides the total itself
TotalPagesOfTotal(tot, limit) == (Max(tot, 1) \div limit) + 1

\* (total_bugs.max(1) - 1) / limit + 1
TotalPages(tot, limit) == ((Max(tot, 1) - 1) \div limit) + 1

PreviousDisabled(page) == page <= 1

NextDisabled(page, limit, tot) == Wrap(page * limit) >= tot

\* create_buttons!
CreateButtons(page, limit, tot) ==
  { [id |-> "previous_page", disabled |-> PreviousDisabled(page)],
    [id |-> "next_page", disabled |-> NextDisabled(page, limit, tot)] }

\* create_embed_reponse! with its buttons
CreateResponse(filter, page, limit, tot, bugs, content) ==
  [ page |-> page,
    body |-> IF bugs = 0 THEN "content_alt" ELSE "content",
    bodyLen |-> IF bugs = 0 THEN ContentAltLen(filter) ELSE content,
    pages |-> TotalPages(tot, limit),
    controls |-> CreateButtons(page, limit, tot) ]

\* Either::failure
FailureFn(replyTo) == IF replyTo = "Message" THEN "reply_failure" ELSE "ephemeral_failure"

\* a renderer that sends a new message for every page
PresentBySending(replyTo) == "send_message"

\* the match on reply_to that presents the list
PresentFn(replyTo) == IF replyTo = "Message" THEN "send_message" ELSE "update_message"

\* a match whose arms both end in Ok(None)
PresentedAsNone(replyTo) == "None"

\* what the arms of that match return: Ok(None) after the update of an
\* interaction, the message sent otherwise
PresentedAs(replyTo) == IF replyTo = "Message" THEN "Some" ELSE "None"

DisplayBugs(filter, limit, page, replyTo, tot, lineLen, failAt, checked) ==
  IF page = 0
  THEN Outcome("panic", <<>>, NoRender, NoFetch)
  ELSE
  LET bugs    == GetBugList(tot, limit, page - 1)
      content == ContentLen(bugs, lineLen)
      fetched == [filter |-> filter, limit |-> limit, pageIdx |-> page - 1,
                  content |-> IF failAt = 1 THEN 0 ELSE content]
      fetch   == <<Call("get_bug_list", failAt # 1)>>
      second(fn) == fetch \o <<Call(fn, failAt # 2)>>
      present == fetch \o <<CallWith(PresentFn(replyTo), failAt # 2, "-", "-",
                                     CreateButtons(page, limit, tot))>>
  IN
  IF failAt = 1
  THEN Outcome("db_error", fetch, NoRender, fetched)
  ELSE IF checked /\ Overflows((page - 1) * limit)
  THEN Outcome("panic", fetch, NoRender, fetched)
  ELSE IF PageTooHigh(page, limit, tot)
  THEN Outcome(IF failAt = 2 THEN "transport" ELSE "page_too_high",
               second(FailureFn(replyTo)), NoRender, fetched)
  ELSE IF TooManyBugs(content)
  THEN Outcome(IF failAt = 2 THEN "transport" ELSE "too_many_bugs",
               second(FailureFn(replyTo)), NoRender, fetched)
  ELSE IF limit = 0
  THEN Outcome("panic", fetch, NoRender, fetched)
  ELSE IF checked /\ Overflows(page * limit)
  THEN Outcome("panic", fetch, NoRender, fetched)
  ELSE IF failAt = 2
  THEN Outcome("transport", present, NoRender, fetched)
  ELSE Outcome(PresentedAs(replyTo), present,
               CreateResponse(filter, page, limit, tot, bugs, content), fetched)

\* ------------------------------------------------------------------- state

\* the user who invoked the command (msg.author) and any other user
Author == "author"
Actors == {"author", "other"}

\* the detail sessions that can run on the one record
Sessions == {1, 2}

\* BugStatus, and its two terminal variants
BugStatus == {"resolved", "low", "medium", "high", "critical", "closed", "forgevanilla"}
Terminal == {"resolved", "closed"}

VARIABLES
  arg,    \* the arguments of the list command (of one call of display_bugs, in
          \* SpecDisplay), with what the store holds and how the build treats overflow
  ret,    \* what the display_bugs call of the last step returned and did
  ls,     \* the list session: the locals of buglist and its place in the loop
  lmsg,   \* the list message as the channel shows it
  lq,     \* the clicks on the list message that are on their way to the collector
  db,     \* the record store: the status of the record
  ds,     \* the detail sessions: the locals of bug and its place in the loop
  dmsg,   \* the detail messages as the channel shows them
  dq,     \* the clicks on each detail message that are on their way
  eff     \* the last step: which handler ran, on which event, and the calls it made

vars == <<arg, ret, ls, lmsg, lq, db, ds, dmsg, dq, eff>>

Eff(op, sess, actor, id, calls) ==
  [op |-> op, sess |-> sess, actor |-> actor, id |-> id, calls |-> calls]

\* a step of the environment: a click, or time passing
EnvEff == Eff("env", 0, "-", "-", <<>>)

Event(actor, id) == [actor |-> actor, id |-> id]

\* the controls of a message that a click can use
Enabled(controls) == { c.id : c \in { k \in controls : ~k.disabled } }

\* a command that is not invoked in the run
NoListSession == [pc |-> "absent", page |-> 0, timer |-> 0, idle |-> 0, age |-> 0]

NoDetailSession ==
  [pc |-> "absent", status |-> "low", buttons |-> FALSE, link |-> FALSE,
   authorized |-> FALSE, timer |-> 0, idle |-> 0, age |-> 0, updates |-> 0]

NoDetailMessage == [status |-> "-", controls |-> {}]

\* ---------------------------------------------------------- the collectors

\* a collector that keeps the time left of one budget for the whole session
ArmFixedBudget(sess) == [sess EXCEPT !.timer = Max(0, TimeoutSecs - sess.age)]

\* CollectComponentInteraction::new(ctx).timeout(Duration::from_secs(60)): every
\* evaluation of the loop condition builds a collector with a timeout of its own
ArmTimeout(sess) == [sess EXCEPT !.timer = TimeoutSecs]

\* the loop waits again: no event has arrived since
Listen(sess) == [ArmTimeout(sess) EXCEPT !.idle = 0]

\* a loop that a denied click ends
AfterDenialBreak(sess) == [sess EXCEPT !.pc = "done"]

\* after the denial is sent: continue, the loop condition is evaluated again
AfterDenial(sess) == Listen(sess)

\* a collector whose timeout never runs
ElapseNever(sess) == sess

\* TickSecs seconds pass for a session that waits
Elapse(sess) ==
  [sess EXCEPT !.timer = Max(0, @ - TickSecs), !.idle = @ + TickSecs,
               !.age = Min(@ + TickSecs, MaxAge)]

\* a loop that takes every user for the original one
NobodyElse(actor) == FALSE

\* interaction.user.id != msg.author.id
NotOriginalUser(actor) == actor # Author

\* ------------------------------------------- display_bugs, called once

DisplayInit ==
  /\ arg \in [ filter : Filters, limit : U32, page : U32, replyTo : ReplyTargets,
               total : 0 .. MaxTotal, checked : BOOLEAN ]
  /\ ret = Pending
  /\ ls = NoListSession
  /\ lmsg = NoRender
  /\ lq = <<>>
  /\ db = "low"
  /\ ds = [s \in Sessions |-> NoDetailSession]
  /\ dmsg = [s \in Sessions |-> NoDetailMessage]
  /\ dq = [s \in Sessions |-> <<>>]
  /\ eff = Eff("init", 0, "-", "-", <<>>)

DisplayCall ==
  /\ ret.res = "pending"
  /\ ls.pc = "absent"
  /\ \E lineLen \in LineLens, failAt \in FailPoints :
       ret' = DisplayBugs(arg.filter, arg.limit, arg.page, arg.replyTo, arg.total,
                          lineLen, failAt, arg.checked)
  /\ eff' = Eff("display_bugs", 0, "-", "-", ret'.calls)
  /\ UNCHANGED <<arg, ls, lmsg, lq, db, ds, dmsg, dq>>

DisplayNext == DisplayCall

SpecDisplay == DisplayInit /\ [][DisplayNext]_vars

\* ------------------------------------- the page count of the footer alone

\* every total and every limit of the width; the other arguments are fixed
FooterInit ==
  /\ arg \in [ filter : {OpenQuery}, limit : U32, page : {1}, replyTo : {"Message"},
               total : U32, checked : {FALSE} ]
  /\ ret = Pending
  /\ ls = NoListSession
  /\ lmsg = NoRender
  /\ lq = <<>>
  /\ db = "low"
  /\ ds = [s \in Sessions |-> NoDetailSession]
  /\ dmsg = [s \in Sessions |-> NoDetailMessage]
  /\ dq = [s \in Sessions |-> <<>>]
  /\ eff = Eff("init", 0, "-", "-", <<>>)

\* the "Page {}/{}" text of the footer; the division panics when limit is 0
FooterCall ==
  /\ ret.res = "pending"
  /\ ret' = IF arg.limit = 0
            THEN Outcome("panic", <<>>, NoRender, NoFetch)
            ELSE Outcome("footer", <<>>,
                         [NoRender EXCEPT !.page = arg.page,
                                          !.pages = TotalPages(arg.total, arg.limit)],
                         NoFetch)
  /\ eff' = Eff("footer", 0, "-", "-", <<>>)
  /\ UNCHANGED <<arg, ls, lmsg, lq, db, ds, dmsg, dq>>

FooterNext == FooterCall

SpecFooter == FooterInit /\ [][FooterNext]_vars

\* ------------------------------------------------------------------ buglist

\* args.single::<u32>().unwrap_or(1).max(1)
StartPage(p) == Max(p, 1)

\* the match on the result of the first display_bugs
StartPc(res) ==
  CASE res = "Some" -> "waiting"
    [] res \in {"page_too_high", "too_many_bugs"} -> "done"
    [] res \in {"panic", "None"} -> "panic"
    [] OTHER -> "error"

\* a `next` that skips a page
TurnPageTwice(page, id) ==
  CASE id = "previous_page" -> IF page # 0 THEN page - 1 ELSE page
    [] id = "next_page" -> page + 2
    [] OTHER -> page

\* the match on interaction.data.custom_id
TurnPage(page, id) ==
  CASE id = "previous_page" -> IF page # 0 THEN page - 1 ELSE page
    [] id = "next_page" -> page + 1
    [] OTHER -> page

\* a loop that goes on after a failed display_bugs
LoopPcSwallow(res) ==
  CASE res = "panic" -> "panic"
    [] OTHER -> "waiting"

\* display_bugs(...).await? inside the loop
LoopPc(res) ==
  CASE res \in {"Some", "None"} -> "waiting"
    [] res = "panic" -> "panic"
    [] OTHER -> "error"

BuglistStart ==
  /\ ls.pc = "idle"
  /\ \E lineLen \in LineLens, failAt \in FailPoints :
       LET page == StartPage(arg.page)
           out  == DisplayBugs(arg.filter, arg.limit, page, "Message", arg.total,
                               lineLen, failAt, arg.checked)
           pc   == StartPc(out.res)
       IN
       /\ ret' = out
       /\ eff' = Eff("buglist", 0, Author, "-", out.calls)
       /\ ls' = IF pc = "waiting"
                THEN Listen([ls EXCEPT !.pc = pc, !.page = page])
                ELSE [ls EXCEPT !.pc = pc, !.page = page]
       /\ lmsg' = IF pc = "waiting" THEN out.render ELSE lmsg
  /\ UNCHANGED <<arg, lq, db, ds, dmsg, dq>>

\* a user clicks a control of the list message that is enabled as shown
ListClick ==
  /\ ls.pc = "waiting"
  /\ Len(lq) < MaxPending
  /\ \E actor \in Actors, id \in Enabled(lmsg.controls) :
       lq' = Append(lq, Event(actor, id))
  /\ eff' = EnvEff
  /\ ret' = Pending
  /\ UNCHANGED <<arg, ls, lmsg, db, ds, dmsg, dq>>

\* one pass of the while loop of buglist: the collector yields a click
ListEvent ==
  /\ ls.pc = "waiting"
  /\ ls.timer > 0
  /\ lq # <<>>
  /\ \E lineLen \in LineLens, failAt \in FailPoints :
       LET ev == Head(lq) IN
       IF NotOriginalUser(ev.actor)
       THEN
         LET ok == failAt # 1 IN
         /\ eff' = Eff("list_event", 0, ev.actor, ev.id,
                       <<CallWith("ephemeral_denial", ok, ev.actor, "-", {})>>)
         /\ ret' = Pending
         /\ ls' = IF ok THEN AfterDenial(ls) ELSE [ls EXCEPT !.pc = "error"]
         /\ lq' = IF ok THEN Tail(lq) ELSE <<>>
         /\ lmsg' = lmsg
       ELSE
         LET turned == TurnPage(ls.page, ev.id)
             page == Wrap(turned)
             out  == IF arg.checked /\ Overflows(turned)
                     THEN Outcome("panic", <<>>, NoRender, NoFetch)
                     ELSE DisplayBugs(arg.filter, arg.limit, page, "Interaction",
                                      arg.total, lineLen, failAt, arg.checked)
             pc   == LoopPc(out.res)
         IN
         /\ eff' = Eff("list_event", 0, ev.actor, ev.id, out.calls)
         /\ ret' = out
         /\ ls' = IF pc = "waiting"
                  THEN Listen([ls EXCEPT !.page = page])
                  ELSE [ls EXCEPT !.pc = pc, !.page = page]
         /\ lq' = IF pc = "waiting" THEN Tail(lq) ELSE <<>>
         /\ lmsg' = IF pc = "waiting" THEN out.render ELSE lmsg
  /\ UNCHANGED <<arg, db, ds, dmsg, dq>>

\* an edit that leaves the components as they are
KeptComponents == lmsg.controls

\* response_message.edit(ctx, |m| m.components(|c| c)): no component is created
ExpiredComponents == {}

\* the collector yields None: the loop ends and the message is edited
ListExpire ==
  /\ ls.pc = "waiting"
  /\ ls.timer = 0
  /\ \E ok \in BOOLEAN :
       /\ eff' = Eff("list_expired", 0, "-", "-",
                     <<CallWith("edit_message", ok, "-", "-", ExpiredComponents)>>)
       /\ lmsg' = IF ok THEN [lmsg EXCEPT !.controls = ExpiredComponents] ELSE lmsg
       /\ ls' = [ls EXCEPT !.pc = IF ok THEN "done" ELSE "error"]
  /\ lq' = <<>>
  /\ ret' = Pending
  /\ UNCHANGED <<arg, db, ds, dmsg, dq>>

\* ---------------------------------------------------------------------- bug

\* a one-argument create_bug_buttons! that keeps Resolve and Close
LinkAndStatusButtons(link) ==
  (IF link THEN {[id |-> "message_link", disabled |-> FALSE]} ELSE {}) \cup
  {[id |-> "resolve_bug", disabled |-> FALSE], [id |-> "close_bug", disabled |-> FALSE]}

\* create_bug_buttons!(message_link)
LinkButtons(link) ==
  IF link THEN {[id |-> "message_link", disabled |-> FALSE]} ELSE {}

\* create_bug_buttons!(message_link, create_buttons)
BugButtons(link, buttons) ==
  LinkButtons(link) \cup
  (IF buttons
   THEN {[id |-> "resolve_bug", disabled |-> FALSE], [id |-> "close_bug", disabled |-> FALSE]}
   ELSE {})

\* msg.author.id == OWNER_ID || (is_lotr_discord && is_admin)
Authorized(botOwner, home, admin) == botOwner \/ (home /\ admin)

\* a flag that forgets who asks
CreateButtonsAnyone(status, authorized) == status \notin Terminal

\* let mut create_buttons = ...
CreateButtonsFlag(status, authorized) == status \notin Terminal /\ authorized

\* a link button whose click is sent to the bot like the others
EveryButtonId == {"message_link", "resolve_bug", "close_bug"}

\* the controls of a detail message whose click reaches the collector: a link
\* button opens its url and sends no interaction
MutatingIds == {"resolve_bug", "close_bug"}

\* the two arms of the match swapped
NewStatusSwapped(id) ==
  CASE id = "resolve_bug" -> "closed"
    [] id = "close_bug" -> "resolved"
    [] OTHER -> "unreachable"

\* the match on interaction.data.custom_id
NewStatus(id) ==
  CASE id = "resolve_bug" -> "resolved"
    [] id = "close_bug" -> "closed"
    [] OTHER -> "unreachable"

\* a loop without its break
AfterUpdateContinue == "waiting"

\* what the loop does after a status change: break
AfterUpdatePc == "done"

\* a collector that takes the clicks on any detail message
CollectsAny(s, m) == TRUE

\* .channel_id(msg.channel_id).message_id(response_message.id): the collector of
\* session s yields the clicks on message m only if m is the message it sent
Collects(s, m) == s = m

\* a store call that leaves a resolved or closed record as it is
WriteIfOpen(stored, new) == IF stored \in Terminal THEN stored ELSE new

\* change_bug_status(ctx, bug_id, new_status): the status is passed to the store
\* as it is, whatever status the session or the store holds
WriteStatus(stored, new) == new

BugStart(s) ==
  /\ ds[s].pc = "idle"
  /\ \E idArg \in {"missing", "malformed", "valid"}, found \in BOOLEAN, link \in BOOLEAN,
        botOwner \in BOOLEAN, home \in BOOLEAN, admin \in BOOLEAN, sendOk \in BOOLEAN :
       LET authorized == Authorized(botOwner, home, admin)
           buttons    == CreateButtonsFlag(db, authorized)
           controls   == BugButtons(link, buttons)
       IN
       IF idArg # "valid"
       THEN /\ eff' = Eff("bug", s, Author, idArg, <<Call("reply_failure", TRUE)>>)
            /\ ds' = [ds EXCEPT ![s].pc = "done"]
            /\ dmsg' = dmsg
       ELSE IF ~found
       THEN /\ eff' = Eff("bug", s, Author, idArg,
                          <<Call("get_bug_from_id", FALSE), Call("reply_failure", TRUE)>>)
            /\ ds' = [ds EXCEPT ![s].pc = "error"]
            /\ dmsg' = dmsg
       ELSE /\ eff' = Eff("bug", s, Author, idArg,
                          <<CallWith("get_bug_from_id", TRUE, "-", db, {}),
                            CallWith("send_message", sendOk, "-", db, controls)>>)
            /\ ds' = [ds EXCEPT ![s] =
                        LET loaded == [@ EXCEPT !.status = db, !.buttons = buttons,
                                                !.link = link, !.authorized = authorized]
                        IN IF ~sendOk THEN [loaded EXCEPT !.pc = "error"]
                           ELSE IF buttons THEN Listen([loaded EXCEPT !.pc = "waiting"])
                           ELSE [loaded EXCEPT !.pc = "done"]]
            /\ dmsg' = IF sendOk
                       THEN [dmsg EXCEPT ![s] = [status |-> db, controls |-> controls]]
                       ELSE dmsg
  /\ ret' = Pending
  /\ UNCHANGED <<arg, ls, lmsg, lq, db, dq>>

\* a user clicks Resolve or Close on a detail message that shows it
BugClick(s) ==
  /\ ds[s].pc = "waiting"
  /\ Len(dq[s]) < MaxPending
  /\ \E actor \in Actors, id \in Enabled(dmsg[s].controls) \cap MutatingIds :
       dq' = [dq EXCEPT ![s] = Append(@, Event(actor, id))]
  /\ eff' = EnvEff
  /\ ret' = Pending
  /\ UNCHANGED <<arg, ls, lmsg, lq, db, ds, dmsg>>

\* one pass of the while loop of bug: the collector yields a click
BugEvent(s) ==
  /\ ds[s].pc = "waiting"
  /\ ds[s].timer > 0
  /\ \E m \in Sessions, failAt \in FailPoints :
       /\ Collects(s, m)
       /\ dq[m] # <<>>
       /\ LET ev    == Head(dq[m])
              new   == NewStatus(ev.id)
              taken == [dq EXCEPT ![m] = Tail(@)]
              ended == [taken EXCEPT ![s] = <<>>]
          IN
          IF NotOriginalUser(ev.actor)
          THEN
            LET ok == failAt # 1 IN
            /\ eff' = Eff("bug_event", s, ev.actor, ev.id,
                          <<CallWith("ephemeral_denial", ok, ev.actor, "-", {})>>)
            /\ ds' = [ds EXCEPT ![s] = IF ok THEN AfterDenial(@)
                                      ELSE [@ EXCEPT !.pc = "error"]]
            /\ dq' = IF ok THEN taken ELSE ended
            /\ UNCHANGED <<db, dmsg>>
          ELSE IF new = "unreachable"
          THEN
            /\ eff' = Eff("bug_event", s, ev.actor, ev.id, <<>>)
            /\ ds' = [ds EXCEPT ![s].pc = "panic"]
            /\ dq' = ended
            /\ UNCHANGED <<db, dmsg>>
          ELSE IF failAt = 1
          THEN
            /\ eff' = Eff("bug_event", s, ev.actor, ev.id,
                          <<CallWith("change_bug_status", FALSE, "-", new, {})>>)
            /\ ds' = [ds EXCEPT ![s].pc = "error", ![s].updates = @ + 1]
            /\ dq' = ended
            /\ UNCHANGED <<db, dmsg>>
          ELSE
            LET ok == failAt # 2 IN
            /\ eff' = Eff("bug_event", s, ev.actor, ev.id,
                          <<CallWith("change_bug_status", TRUE, "-", new, {}),
                            CallWith("update_message", ok, "-", new,
                                     LinkButtons(ds[s].link))>>)
            /\ db' = WriteStatus(db, new)
            /\ ds' = [ds EXCEPT ![s] =
                        IF ok
                        THEN [@ EXCEPT !.status = new, !.updates = @ + 1,
                                       !.buttons = FALSE, !.pc = AfterUpdatePc]
                        ELSE [@ EXCEPT !.status = new, !.updates = @ + 1,
                                       !.pc = "error"]]
            /\ dq' = ended
            /\ dmsg' = IF ok
                       THEN [dmsg EXCEPT ![s] = [status |-> new,
                                                 controls |-> LinkButtons(ds[s].link)]]
                       ELSE dmsg
  /\ ret' = Pending
  /\ UNCHANGED <<arg, ls, lmsg, lq>>

\* the collector yields None: if create_buttons { response_message.edit(...) }
BugExpire(s) ==
  /\ ds[s].pc = "waiting"
  /\ ds[s].timer = 0
  /\ \E ok \in BOOLEAN :
       /\ eff' = Eff("bug_expired", s, "-", "-",
                     <<CallWith("edit_message", ok, "-", "-", LinkButtons(ds[s].link))>>)
       /\ dmsg' = IF ok THEN [dmsg EXCEPT ![s].controls = LinkButtons(ds[s].link)] ELSE dmsg
       /\ ds' = [ds EXCEPT ![s].pc = IF ok THEN "done" ELSE "error"]
  /\ dq' = [dq EXCEPT ![s] = <<>>]
  /\ ret' = Pending
  /\ UNCHANGED <<arg, ls, lmsg, lq, db>>

\* -------------------------------------------------------------------- time

WaitingSessions == { s \in Sessions : ds[s].pc = "waiting" }

\* TickSecs seconds pass; a collector whose timeout has run out fires first
Tick ==
  /\ ls.pc = "waiting" \/ WaitingSessions # {}
  /\ ls.pc = "waiting" => ls.timer > 0
  /\ \A s \in WaitingSessions : ds[s].timer > 0
  /\ ls' = IF ls.pc = "waiting" THEN Elapse(ls) ELSE ls
  /\ ds' = [s \in Sessions |-> IF s \in WaitingSessions THEN Elapse(ds[s]) ELSE ds[s]]
  /\ eff' = EnvEff
  /\ ret' = Pending
  /\ UNCHANGED <<arg, lmsg, lq, db, dmsg, dq>>

\* ------------------------------------------------ the commands of admins

\* the words of a command line after the command name, each by what the parsers
\* make of it: "legacy", a status name, digits, LOTR-<digits>, #<digits>, other
Tokens == {"legacy", "status", "number", "LOTR-n", "#n", "word"}

MaxArgs == 3

RECURSIVE ArgsOfLen(_)
ArgsOfLen(n) ==
  IF n = 0 THEN { <<>> }
  ELSE { Append(a, t) : a \in ArgsOfLen(n - 1), t \in Tokens }

ArgLines == UNION { ArgsOfLen(n) : n \in 0 .. MaxArgs }

CommandNames == {"track", "bug_status", "resolve", "bug_close", "bug_link",
                 "bug_link_remove", "bug_toggle_edition", "bug_rename"}

\* what a command did: its calls, the status it stored ("-": none), its result
Ran(calls, status, res) == [calls |-> calls, status |-> status, res |-> res]

\* failure!(ctx, msg, ...) and return Ok(()) or fall through to Ok(())
Fail == Ran(<<Call("reply_failure", TRUE)>>, "-", "Ok")

\* termite_success!: msg.reply(...).await? and then msg.react(...).await?
TermiteSuccess(failAt) ==
  IF failAt = 2 THEN <<Call("reply_success", FALSE)>>
  ELSE <<Call("reply_success", TRUE), Call("react", TRUE)>>

SuccessRes(failAt) == IF failAt = 2 THEN "Err" ELSE "Ok"

\* a parser that takes any word for a bug id
ParseAnyBugId(tok) == TRUE

\* bug_id.to_uppercase().trim_start_matches("LOTR-").parse::<u64>()
ParseBugId(tok) == tok \in {"number", "LOTR-n"}

\* link_id.trim_start_matches('#').parse::<u64>()
ParseLinkId(tok) == tok \in {"number", "#n"}

\* args.single::<String>() and the parse of the bug id
BugIdArg(args) ==
  IF args = <<>> THEN "missing"
  ELSE IF ParseBugId(Head(args)) THEN "valid"
  ELSE "malformed"

\* args.rest().is_empty()
TitleIsEmpty(rest) == rest = <<>>

\* track: the words left after an optional "legacy" and an optional status
TrackTitle(args) ==
  LET a1 == IF args # <<>> /\ Head(args) = "legacy" THEN Tail(args) ELSE args
  IN IF a1 # <<>> /\ Head(a1) = "status" THEN Tail(a1) ELSE a1

TrackCmd(args, ref, failAt) ==
  IF TitleIsEmpty(TrackTitle(args)) THEN Fail
  ELSE IF ~ref THEN Fail
  ELSE IF failAt = 1
  THEN Ran(<<Call("add_bug_report", FALSE), Call("reply_failure", TRUE)>>, "-", "Err")
  ELSE Ran(<<Call("add_bug_report", TRUE)>> \o TermiteSuccess(failAt), "-",
           SuccessRes(failAt))

\* change_bug_status and the replies of bug_status, resolve and bug_close
ChangeTo(new, failAt) ==
  IF failAt = 1
  THEN Ran(<<CallWith("change_bug_status", FALSE, "-", new, {}),
             Call("reply_failure", TRUE)>>, "-", "Err")
  ELSE Ran(<<CallWith("change_bug_status", TRUE, "-", new, {})>> \o TermiteSuccess(failAt),
           new, SuccessRes(failAt))

BugStatusCmd(args, new, failAt) ==
  IF BugIdArg(args) # "valid" THEN Fail
  ELSE IF Len(args) < 2 \/ args[2] # "status" THEN Fail
  ELSE ChangeTo(new, failAt)

ResolveCmd(args, failAt) ==
  IF BugIdArg(args) # "valid" THEN Fail ELSE ChangeTo("resolved", failAt)

BugCloseCmd(args, failAt) ==
  IF BugIdArg(args) # "valid" THEN Fail ELSE ChangeTo("closed", failAt)

\* add_link returns None: failure!, and the command still returns Ok(())
AddLink(failAt) ==
  IF failAt = 1
  THEN Ran(<<Call("add_link", FALSE), Call("reply_failure", TRUE)>>, "-", "Ok")
  ELSE Ran(<<Call("add_link", TRUE)>> \o TermiteSuccess(failAt), "-", SuccessRes(failAt))

BugLinkCmd(args, ref, failAt) ==
  IF BugIdArg(args) # "valid" THEN Fail
  ELSE IF ref
  THEN IF TitleIsEmpty(Tail(args)) THEN Fail ELSE AddLink(failAt)
  ELSE IF Len(args) >= 2
  THEN IF TitleIsEmpty(Tail(Tail(args))) THEN Fail ELSE AddLink(failAt)
  ELSE Fail

BugLinkRemoveCmd(args, failAt) ==
  IF BugIdArg(args) # "valid" THEN Fail
  ELSE IF Len(args) < 2 THEN Fail
  ELSE IF ~ParseLinkId(args[2]) THEN Fail
  ELSE IF failAt = 1
  THEN Ran(<<Call("remove_link", FALSE), Call("reply_failure", TRUE)>>, "-", "Ok")
  ELSE Ran(<<Call("remove_link", TRUE)>> \o TermiteSuccess(failAt), "-", SuccessRes(failAt))

BugToggleEditionCmd(args, failAt) ==
  IF BugIdArg(args) # "valid" THEN Fail
  ELSE IF failAt = 1
  THEN Ran(<<Call("switch_edition", FALSE), Call("reply_failure", TRUE)>>, "-", "Ok")
  ELSE Ran(<<Call("switch_edition", TRUE)>> \o TermiteSuccess(failAt), "-",
           SuccessRes(failAt))

BugRenameCmd(args, failAt) ==
  IF BugIdArg(args) # "valid" THEN Fail
  ELSE IF TitleIsEmpty(Tail(args)) THEN Fail
  ELSE IF failAt = 1
  THEN Ran(<<Call("change_title", FALSE), Call("reply_failure", TRUE)>>, "-", "Ok")
  ELSE Ran(<<Call("change_title", TRUE)>> \o TermiteSuccess(failAt), "-", SuccessRes(failAt))

RunCommand(cmd, args, ref, new, failAt) ==
  CASE cmd = "track" -> TrackCmd(args, ref, failAt)
    [] cmd = "bug_status" -> BugStatusCmd(args, new, failAt)
    [] cmd = "resolve" -> ResolveCmd(args, failAt)
    [] cmd = "bug_close" -> BugCloseCmd(args, failAt)
    [] cmd = "bug_link" -> BugLinkCmd(args, ref, failAt)
    [] cmd = "bug_link_remove" -> BugLinkRemoveCmd(args, failAt)
    [] cmd = "bug_toggle_edition" -> BugToggleEditionCmd(args, failAt)
    [] cmd = "bug_rename" -> BugRenameCmd(args, failAt)

\* the command line of the last command, as the step's id
Line(args, ref) == [args |-> args, ref |-> ref]

\* an admin runs one of the commands; it is the first command of the run
AdminCommand ==
  /\ eff.op = "init"
  /\ ls.pc = "absent"
  /\ \A s \in Sessions : ds[s].pc = "absent"
  /\ \E cmd \in CommandNames, args \in ArgLines, ref \in BOOLEAN, new \in BugStatus,
        failAt \in FailPoints :
       LET ran == RunCommand(cmd, args, ref, new, failAt) IN
       /\ eff' = Eff(cmd, 0, "admin", Line(args, ref), ran.calls)
       /\ db' = IF ran.status = "-" THEN db ELSE ran.status
       /\ ret' = Outcome(ran.res, ran.calls, NoRender, NoFetch)
  /\ UNCHANGED <<arg, ls, lmsg, lq, ds, dmsg, dq>>

\* the commands that change the status of a record
StatusCommands == {"bug_status", "resolve", "bug_close"}

\* a line that names the record, and a status for bug_status
StatusLine == <<"LOTR-n", "status">>

\* an admin changes the status of the record with a command, at any time
StatusCommand ==
  /\ \E cmd \in StatusCommands, failAt \in FailPoints :
     \E new \in IF cmd = "bug_status" THEN BugStatus ELSE {"-"} :
       LET ran == RunCommand(cmd, StatusLine, FALSE, new, failAt) IN
       /\ eff' = Eff(cmd, 0, "admin", Line(StatusLine, FALSE), ran.calls)
       /\ db' = IF ran.status = "-" THEN db ELSE ran.status
       /\ ret' = Outcome(ran.res, ran.calls, NoRender, NoFetch)
  /\ UNCHANGED <<arg, ls, lmsg, lq, ds, dmsg, dq>>

\* ---------------------------------------------------- one command at a time

NoArg == [filter |-> OpenQuery, limit |-> 1, page |-> 1, replyTo |-> "Message",
          total |-> 0, checked |-> FALSE]

\* the list command is invoked, with any arguments, on a store of any size
InitList ==
  /\ arg \in [ filter : Filters, limit : 0 .. MaxLimit, page : 0 .. MaxStartPage,
               replyTo : {"Message"}, total : 0 .. MaxTotal, checked : BOOLEAN ]
  /\ ls = [NoListSession EXCEPT !.pc = "idle"]
  /\ db = "low"
  /\ ds = [s \in Sessions |-> NoDetailSession]

\* the detail command is invoked on a record of any status
InitDetail ==
  /\ arg = NoArg
  /\ ls = NoListSession
  /\ db \in BugStatus
  /\ ds = [s \in Sessions |-> IF s = 1 THEN [NoDetailSession EXCEPT !.pc = "idle"]
                              ELSE NoDetailSession]

Init ==
  /\ InitList \/ InitDetail
  /\ ret = Pending
  /\ lmsg = NoRender
  /\ lq = <<>>
  /\ dmsg = [s \in Sessions |-> NoDetailMessage]
  /\ dq = [s \in Sessions |-> <<>>]
  /\ eff = Eff("init", 0, "-", "-", <<>>)

Next ==
  \/ BuglistStart
  \/ ListClick
  \/ ListEvent
  \/ ListExpire
  \/ \E s \in Sessions : BugStart(s)
  \/ \E s \in Sessions : BugClick(s)
  \/ \E s \in Sessions : BugEvent(s)
  \/ \E s \in Sessions : BugExpire(s)
  \/ Tick

Spec == Init /\ [][Next]_vars

\* the runtime polls every task that can go on, and time passes: each command
\* starts, each collector yields the click it holds or its timeout, and the
\* command goes on from there
Fairness ==
  /\ WF_vars(BuglistStart)
  /\ WF_vars(ListEvent)
  /\ WF_vars(ListExpire)
  /\ \A s \in Sessions :
       WF_vars(BugStart(s)) /\ WF_vars(BugEvent(s)) /\ WF_vars(BugExpire(s))
  /\ WF_vars(Tick)

\* the list command on a store of MaxTotal open records, from its first page
InitFirstPage ==
  /\ arg \in [ filter : {OpenQuery}, limit : 1 .. MaxLimit, page : {1},
               replyTo : {"Message"}, total : {MaxTotal}, checked : {FALSE} ]
  /\ ls = [NoListSession EXCEPT !.pc = "idle"]
  /\ db = "low"
  /\ ds = [s \in Sessions |-> NoDetailSession]

LiveInit ==
  /\ InitFirstPage \/ InitDetail
  /\ ret = Pending
  /\ lmsg = NoRender
  /\ lq = <<>>
  /\ dmsg = [s \in Sessions |-> NoDetailMessage]
  /\ dq = [s \in Sessions |-> <<>>]
  /\ eff = Eff("init", 0, "-", "-", <<>>)

SpecLive == LiveInit /\ [][Next]_vars /\ Fairness

\* the list command is invoked with any status filter, edition and order, on a
\* store of MaxTotal matching records
InitAnyQuery ==
  /\ arg \in [ filter : Queries, limit : 1 .. MaxLimit, page : {1},
               replyTo : {"Message"}, total : {MaxTotal}, checked : {FALSE} ]
  /\ ls = [NoListSession EXCEPT !.pc = "idle"]
  /\ db = "low"
  /\ ds = [s \in Sessions |-> NoDetailSession]

FrameInit ==
  /\ InitAnyQuery
  /\ ret = Pending
  /\ lmsg = NoRender
  /\ lq = <<>>
  /\ dmsg = [s \in Sessions |-> NoDetailMessage]
  /\ dq = [s \in Sessions |-> <<>>]
  /\ eff = Eff("init", 0, "-", "-", <<>>)

FrameNext ==
  \/ BuglistStart
  \/ ListClick
  \/ ListEvent
  \/ ListExpire
  \/ Tick

SpecFrame == FrameInit /\ [][FrameNext]_vars

\* a command of an admin is invoked on a record of any status
InitAdmin ==
  /\ arg = NoArg
  /\ ls = NoListSession
  /\ db \in BugStatus
  /\ ds = [s \in Sessions |-> NoDetailSession]

\* the run is a command of an admin, or a detail view
CommandsInit ==
  /\ InitAdmin \/ InitDetail
  /\ ret = Pending
  /\ lmsg = NoRender
  /\ lq = <<>>
  /\ dmsg = [s \in Sessions |-> NoDetailMessage]
  /\ dq = [s \in Sessions |-> <<>>]
  /\ eff = Eff("init", 0, "-", "-", <<>>)

CommandsNext ==
  \/ AdminCommand
  \/ \E s \in Sessions : BugStart(s)
  \/ \E s \in Sessions : BugClick(s)
  \/ \E s \in Sessions : BugEvent(s)
  \/ \E s \in Sessions : BugExpire(s)
  \/ Tick

SpecCommands == CommandsInit /\ [][CommandsNext]_vars

\* two detail views of the same record, invoked by the same user
InitTwoDetails ==
  /\ arg = NoArg
  /\ ls = NoListSession
  /\ db \in BugStatus
  /\ ds = [s \in Sessions |-> [NoDetailSession EXCEPT !.pc = "idle"]]

\* a list of two records in pages of one, and a detail view of an open record
InitListAndDetail ==
  /\ arg = [filter |-> OpenQuery, limit |-> 1, page |-> 1, replyTo |-> "Message",
            total |-> 2, checked |-> FALSE]
  /\ ls = [NoListSession EXCEPT !.pc = "idle"]
  /\ db = "low"
  /\ ds = [s \in Sessions |-> IF s = 1 THEN [NoDetailSession EXCEPT !.pc = "idle"]
                              ELSE NoDetailSession]

\* several commands run as tasks of one runtime
ConcInit ==
  /\ InitTwoDetails \/ InitListAndDetail
  /\ ret = Pending
  /\ lmsg = NoRender
  /\ lq = <<>>
  /\ dmsg = [s \in Sessions |-> NoDetailMessage]
  /\ dq = [s \in Sessions |-> <<>>]
  /\ eff = Eff("init", 0, "-", "-", <<>>)

\* the steps of the sessions in any order; the runs are shorter than a timeout
ConcNext ==
  \/ BuglistStart
  \/ ListClick
  \/ ListEvent
  \/ \E s \in Sessions : BugStart(s)
  \/ \E s \in Sessions : BugClick(s)
  \/ \E s \in Sessions : BugEvent(s)

SpecConc == ConcInit /\ [][ConcNext]_vars

\* a detail view of a record and the status commands of admins on it
RaceInit ==
  /\ InitDetail
  /\ ret = Pending
  /\ lmsg = NoRender
  /\ lq = <<>>
  /\ dmsg = [s \in Sessions |-> NoDetailMessage]
  /\ dq = [s \in Sessions |-> <<>>]
  /\ eff = Eff("init", 0, "-", "-", <<>>)

\* the steps of the session and the commands in any order; the runs are shorter
\* than a timeout
RaceNext ==
  \/ \E s \in Sessions : BugStart(s)
  \/ \E s \in Sessions : BugClick(s)
  \/ \E s \in Sessions : BugEvent(s)
  \/ StatusCommand

SpecRace == RaceInit /\ [][RaceNext]_vars

\* -------------------------------------------------------------- properties

\* the identifiers of the controls of a render that change the record
Mutating(controls) == { c.id : c \in controls } \cap MutatingIds

Ended == {"done", "error", "panic"}

\* C1: in both loops an event whose actor is not the invoking user leaves the
\* page number and the record status (snapshot and store) unchanged, makes no
\* store call, leaves the displayed messages as they are, and sends exactly one
\* ephemeral denial, to the clicking actor.
C1_NonOwnerDenied ==
  [][ (eff'.op \in {"list_event", "bug_event"} /\ eff'.actor # Author)
      => /\ ls'.page = ls.page
         /\ \A s \in Sessions : ds'[s].status = ds[s].status /\ ds'[s].updates = ds[s].updates
         /\ db' = db
         /\ lmsg' = lmsg
         /\ dmsg' = dmsg
         /\ ret' = Pending
         /\ Len(eff'.calls) = 1
         /\ eff'.calls[1].fn = "ephemeral_denial"
         /\ eff'.calls[1].to = eff'.actor ]_vars

C1_Witness ==
  /\ eff.op = "list_event"
  /\ eff.actor = "other"
  /\ eff.calls[1].ok
  /\ ls.pc = "waiting"
  /\ ls.page > 1

C3_ListExpiry ==
  /\ [](eff.op = "list_expired"
          => /\ ls.pc \in {"done", "error"}
             /\ Len(eff.calls) = 1
             /\ eff.calls[1].fn = "edit_message"
             /\ eff.calls[1].controls = {}
             /\ eff.calls[1].ok => (lmsg.controls = {} /\ ls.pc = "done"))
  /\ [][ls.pc \in Ended => ls'.pc = ls.pc]_vars

C3_Witness ==
  /\ eff.op = "list_expired"
  /\ eff.calls[1].ok
  /\ lmsg.controls = {}
  /\ lmsg.page >= 1

\* C4 (as claimed): every page number a list session passes to display_bugs is
\* at least 1, whatever owner events it has handled.
C4_PageAtLeastOne == ls.pc \notin {"absent", "idle"} => ls.page >= 1

\* C5: an owner event resolve_bug (close_bug) of the detail loop first updates
\* the record to Resolved (Closed) in the store; only if that succeeded the
\* snapshot takes the status and the message is updated in place without
\* Resolve and Close; the loop then ends.
C5_OwnerTransition ==
  [][ (eff'.op = "bug_event" /\ eff'.actor = Author)
      => LET s   == eff'.sess
             new == IF eff'.id = "resolve_bug" THEN "resolved" ELSE "closed"
         IN
         /\ eff'.id \in {"resolve_bug", "close_bug"}
         /\ Len(eff'.calls) >= 1
         /\ eff'.calls[1].fn = "change_bug_status"
         /\ eff'.calls[1].status = new
         /\ ds'[s].pc \in {"done", "error"}
         /\ IF eff'.calls[1].ok
            THEN /\ db' = new
                 /\ ds'[s].status = new
                 /\ Len(eff'.calls) = 2
                 /\ eff'.calls[2].fn = "update_message"
                 /\ Mutating(eff'.calls[2].controls) = {}
                 /\ IF eff'.calls[2].ok
                    THEN /\ dmsg'[s].status = new
                         /\ Mutating(dmsg'[s].controls) = {}
                         /\ ds'[s].pc = "done"
                    ELSE dmsg' = dmsg /\ ds'[s].pc = "error"
            ELSE /\ Len(eff'.calls) = 1
                 /\ db' = db
                 /\ ds'[s].status = ds[s].status
                 /\ dmsg' = dmsg
                 /\ ds'[s].pc = "error" ]_vars

C5_Witness ==
  /\ eff.op = "bug_event"
  /\ eff.actor = Author
  /\ eff.id = "close_bug"
  /\ Len(eff.calls) = 2
  /\ eff.calls[2].ok
  /\ db = "closed"
  /\ ds[1].pc = "done"

\* C6: a detail session issues at most one status update, and once it has issued
\* one it awaits no further event.
C6_SingleUpdate ==
  \A s \in Sessions :
    /\ ds[s].updates <= 1
    /\ ds[s].updates >= 1 => ds[s].pc \in Ended

C6_Witness == ds[1].updates = 1 /\ ds[1].pc = "done" /\ db = "resolved"

\* C7: when a wait of the detail loop expires, the message is edited to remove
\* Resolve and Close, no status update is sent, and store and snapshot keep the
\* status.
C7_DetailExpiry ==
  [][ eff'.op = "bug_expired"
      => LET s == eff'.sess IN
         /\ Len(eff'.calls) = 1
         /\ eff'.calls[1].fn = "edit_message"
         /\ Mutating(eff'.calls[1].controls) = {}
         /\ eff'.calls[1].ok => Mutating(dmsg'[s].controls) = {}
         /\ db' = db
         /\ ds'[s].status = ds[s].status
         /\ ds'[s].updates = ds[s].updates
         /\ ds'[s].pc \in {"done", "error"} ]_vars

C7_Witness ==
  /\ eff.op = "bug_expired"
  /\ eff.calls[1].ok
  /\ ds[1].pc = "done"
  /\ ds[1].updates = 0
  /\ ds[1].status \notin Terminal
  /\ Mutating(dmsg[1].controls) = {}

\* the renders the last step made, when it is a step of the detail command
DetailRenders ==
  IF eff.op \in {"bug", "bug_event", "bug_expired"}
  THEN { i \in DOMAIN eff.calls :
           /\ eff.calls[i].fn \in {"send_message", "update_message", "edit_message"}
           /\ eff.calls[i].ok }
  ELSE {}

\* C8 (as claimed): every render of a detail view has Resolve and Close if and
\* only if the snapshot status is not terminal and the invoking actor was
\* authorized at the initial render.
C8_ControlsIffOpenAndAuthorized ==
  \A i \in DetailRenders :
    (Mutating(eff.calls[i].controls) = MutatingIds)
      <=> (ds[eff.sess].status \notin Terminal /\ ds[eff.sess].authorized)

\* C8 (amended): a render of a detail view has Resolve and Close only if the
\* snapshot status is not terminal and the actor was authorized; the initial
\* render has them if and only if that holds; the re-render after a transition
\* and the edit after expiry have none, the latter on a snapshot that is still
\* not terminal.
C8_ControlsOnlyIfOpenAndAuthorized ==
  \A i \in DetailRenders :
    LET shown == Mutating(eff.calls[i].controls)
        open  == ds[eff.sess].status \notin Terminal /\ ds[eff.sess].authorized
    IN /\ shown \in {{}, MutatingIds}
       /\ shown # {} => open
       /\ eff.op = "bug" => (shown = MutatingIds <=> open)
       /\ eff.op # "bug" => shown = {}
       /\ ds[eff.sess].status \in Terminal => shown = {}

C8_Witness ==
  /\ eff.op = "bug"
  /\ DetailRenders # {}
  /\ ds[1].authorized
  /\ ds[1].status \notin Terminal
  /\ Mutating(dmsg[1].controls) = MutatingIds

\* the display_bugs call of SpecDisplay returned, and no call to the store or to
\* the chat surface failed under it
Returned == ret.res \notin {"pending", "db_error", "transport"}

\* C9 (as claimed): for every page >= 1, limit >= 1 and total > 0 with
\* (page-1)*limit >= total, display_bugs sends a corrective reply and fails with
\* the page-out-of-range error, and neither sends nor updates the list message.
C9_PageOutOfRange ==
  ( /\ Returned
    /\ arg.page >= 1 /\ arg.limit >= 1 /\ arg.total > 0
    /\ (arg.page - 1) * arg.limit >= arg.total )
  => ( /\ ret.res = "page_too_high"
       /\ ret.calls = <<Call("get_bug_list", TRUE), Call(FailureFn(arg.replyTo), TRUE)>>
       /\ ret.render = NoRender )

\* C10 (as claimed): with total = 0 and page 1 the list view does not fail with
\* the page-out-of-range error: a list message is presented whose body is the
\* empty-state text, never an empty string; with total = 0 the error occurs only
\* for page > 1.
C10_EmptyStateRendered ==
  ( /\ Returned
    /\ arg.total = 0 /\ arg.limit >= 1 )
  => ( /\ arg.page = 1 => /\ ret.res \in {"Some", "None"}
                          /\ ret.render.body = "content_alt"
                          /\ ret.render.bodyLen > 0
       /\ ret.res = "page_too_high" => arg.page > 1 )

\* the display_bugs call of SpecDisplay presented a list view
Rendered == ret.res \in {"Some", "None"}

\* C11 (as claimed): every successfully rendered list view carries exactly two
\* navigation controls; previous is disabled if and only if page <= 1 and next is
\* disabled if and only if page*limit >= total.
C11_NavigationFlags ==
  Rendered
  => /\ Cardinality(ret.render.controls) = 2
     /\ { c.id : c \in ret.render.controls } = {"previous_page", "next_page"}
     /\ \A c \in ret.render.controls :
          /\ c.id = "previous_page" => (c.disabled <=> arg.page <= 1)
          /\ c.id = "next_page" => (c.disabled <=> arg.page * arg.limit >= arg.total)

\* the least q with q*b >= a, for a >= 1 and b >= 1
Ceiling(a, b) == CHOOSE q \in 1 .. a : (q - 1) * b < a /\ a <= q * b

\* C12: for every total >= 0 and limit >= 1 the page count of the footer,
\* (max(total,1) - 1) / limit + 1 in integer division, equals the ceiling of
\* max(total,1) / limit.
C12_FooterPageCount ==
  (ret.res = "footer" /\ arg.limit >= 1)
  => ret.render.pages = Ceiling(Max(arg.total, 1), arg.limit)

\* 7 records in pages of 3: the last page is partial
C12_Witness ==
  /\ ret.res = "footer"
  /\ arg.total = 7
  /\ arg.limit = 3
  /\ ret.render.pages = 3

\* the last step was a loop pass for a click of a user other than the invoker,
\* and the denial was sent
DeniedStep ==
  /\ eff.op \in {"list_event", "bug_event"}
  /\ NotOriginalUser(eff.actor)
  /\ eff.calls[1].ok

\* C13: a non-owner event never terminates a session loop: after the denial both
\* the list loop and the detail loop wait for the next event, with a new timeout
\* and with the controls of the message still in place.
C13_NonOwnerKeepsWaiting ==
  DeniedStep
  => /\ eff.op = "list_event"
        => ls.pc = "waiting" /\ ls.timer = TimeoutSecs /\ lmsg.controls # {}
     /\ eff.op = "bug_event"
        => /\ ds[eff.sess].pc = "waiting"
           /\ ds[eff.sess].timer = TimeoutSecs
           /\ Mutating(dmsg[eff.sess].controls) = MutatingIds

\* the detail loop waits again after a denial
C13_Witness ==
  /\ DeniedStep
  /\ eff.op = "bug_event"
  /\ ds[eff.sess].pc = "waiting"

\* the step is a pass of the list loop for a click of the invoker that turns to a
\* page past the last one, and the records were fetched
OutOfRangeTurn ==
  /\ eff'.op = "list_event"
  /\ ~NotOriginalUser(eff'.actor)
  /\ ls'.page >= 1
  /\ (ls'.page - 1) * arg.limit >= arg.total
  /\ Len(eff'.calls) >= 1
  /\ eff'.calls[1].ok

\* C14: in the list loop, when a next/previous click of the owner leads to a page
\* whose refetch is out of range, the click is answered with the corrective notice
\* (ephemeral, to the clicker), the list message is not updated, and the session
\* ends without waiting for another event.
C14_OutOfRangeInLoop ==
  [][ OutOfRangeTurn
      => /\ Len(eff'.calls) = 2
         /\ eff'.calls[2].fn = "ephemeral_failure"
         /\ eff'.calls[2].ok => ret'.res = "page_too_high"
         /\ \A i \in 1 .. Len(eff'.calls) : eff'.calls[i].fn # "update_message"
         /\ lmsg' = lmsg
         /\ ls'.pc = "error"
         /\ lq' = <<>> ]_vars

\* a stale `next` click took the session past the last page
C14_Witness ==
  /\ eff.op = "list_event"
  /\ eff.actor = Author
  /\ eff.id = "next_page"
  /\ ret.res = "page_too_high"
  /\ ls.pc = "error"
  /\ lmsg.page < ls.page
  /\ lmsg.controls # {}

\* the last display_bugs fetched records whose joined lines are longer than 4096
LongBody == ret.fetched.content > MaxDescriptionLen

\* C15: when the joined body is longer than 4096, display_bugs sends the
\* corrective reply and fails before it sends or updates a list message; it
\* fetches once and never tries again with a smaller page; on the initial render
\* no session loop is started, inside the loop the session ends.
C15_TooManyForDisplay ==
  LongBody
  => /\ ret.render = NoRender
     /\ Len(ret.calls) = 2
     /\ ret.calls[1].fn = "get_bug_list"
     /\ ret.calls[2].fn \in {"reply_failure", "ephemeral_failure"}
     /\ ret.calls[2].ok => ret.res = "too_many_bugs"
     /\ eff.op = "buglist"
        => /\ ls.pc \in {"done", "error"}
           /\ ret.calls[2].ok => ls.pc = "done"
           /\ lmsg = NoRender
           /\ ret.calls[2].fn = "reply_failure"
     /\ eff.op = "list_event"
        => /\ ls.pc = "error"
           /\ ret.calls[2].fn = "ephemeral_failure"

\* the first page is one byte too long: the command ends without a session
C15_Witness ==
  /\ eff.op = "buglist"
  /\ ret.fetched.content = MaxDescriptionLen + 1
  /\ ret.res = "too_many_bugs"
  /\ ls.pc = "done"

\* the functions of the record store
StoreFns == {"add_bug_report", "get_bug_from_id", "get_bug_list", "change_bug_status",
             "add_link", "remove_link", "switch_edition", "change_title"}

\* the command line has no bug id, or a first word that is not digits with an
\* optional LOTR- before them
BadBugId(args) == args = <<>> \/ Head(args) \notin {"number", "LOTR-n"}

\* the command line lacks the title, the link or the link id the command needs
BadText(op, line) ==
  CASE op = "track" ->
         line.args \in {<<>>, <<"legacy">>, <<"status">>, <<"legacy", "status">>}
    [] op = "bug_rename" -> Len(line.args) <= 1
    [] op = "bug_link" -> Len(line.args) <= (IF line.ref THEN 1 ELSE 2)
    [] op = "bug_link_remove" ->
         Len(line.args) <= 1 \/ line.args[2] \notin {"number", "#n"}
    [] OTHER -> FALSE

\* the last step was a command whose id, title or link is missing or malformed
InvalidCommand ==
  \/ eff.op = "bug" /\ eff.id \in {"missing", "malformed"}
  \/ eff.op \in CommandNames \ {"track"} /\ BadBugId(eff.id.args)
  \/ eff.op \in CommandNames /\ BadText(eff.op, eff.id)

\* C16: for track, bug, bug_status, resolve, bug_close, bug_link,
\* bug_link_remove, bug_toggle_edition and bug_rename: when the id is missing or
\* malformed, or the title or link text is empty, a corrective reply is sent and
\* no call to the record store is made.
C16_ValidationBeforeStore ==
  InvalidCommand
  => /\ \E i \in 1 .. Len(eff.calls) : eff.calls[i].fn = "reply_failure"
     /\ \A i \in 1 .. Len(eff.calls) : eff.calls[i].fn \notin StoreFns

\* bug_link with an id and a link but no title
C16_Witness ==
  /\ eff.op = "bug_link"
  /\ eff.id = [args |-> <<"LOTR-n", "word">>, ref |-> FALSE]
  /\ eff.calls = <<Call("reply_failure", TRUE)>>

\* store functions whose failure the commands report as "does not exist"
LookupFns == {"get_bug_from_id", "change_bug_status", "add_link", "remove_link",
              "switch_edition", "change_title"}

\* C17 (as claimed): whenever a store call reports that the record or link does
\* not exist, a corrective reply is presented to the acting user: for bug,
\* bug_status, resolve, bug_close, bug_link, bug_link_remove, bug_rename and
\* bug_toggle_edition, and for the status update of a Resolve/Close click in the
\* detail loop.
C17_NotFoundReply ==
  eff.op \in (CommandNames \ {"track"}) \cup {"bug", "bug_event"}
  => \A i \in 1 .. Len(eff.calls) :
       (eff.calls[i].fn \in LookupFns /\ ~eff.calls[i].ok)
       => \E j \in (i + 1) .. Len(eff.calls) :
            eff.calls[j].fn \in {"reply_failure", "ephemeral_failure"}

\* the steps a session makes once its loop has started
LoopOps == {"list_event", "list_expired", "bug_event", "bug_expired"}

\* the position of the session that made the last step
StepPc == IF eff.op \in {"list_event", "list_expired"} THEN ls.pc ELSE ds[eff.sess].pc

\* the last step was a step of a session in which a call failed
FailedStep ==
  /\ eff.op \in LoopOps
  /\ \E i \in 1 .. Len(eff.calls) : ~eff.calls[i].ok

\* C18: after a failed store call or chat call made by a session (the denial, the
\* re-render, the transition, the edit after expiry) the session waits for no
\* further event and does not repeat the call: the failed call is the last call
\* of the step, the command has returned the error, and it stays so.
C18_FailureEndsSession ==
  [][ /\ FailedStep'
         => /\ StepPc' = "error"
            /\ \A i \in 1 .. Len(eff'.calls) : ~eff'.calls[i].ok => i = Len(eff'.calls)
            /\ eff'.op \in {"list_event", "list_expired"} => lq' = <<>>
            /\ eff'.op \in {"bug_event", "bug_expired"} => dq'[eff'.sess] = <<>>
      /\ ls.pc = "error" => ls' = ls /\ lmsg' = lmsg
      /\ \A s \in Sessions : ds[s].pc = "error" => ds'[s] = ds[s] /\ dmsg'[s] = dmsg[s]
    ]_vars

\* the update of the list message failed after the page was fetched
C18_Witness ==
  /\ eff.op = "list_event"
  /\ Len(eff.calls) = 2
  /\ eff.calls[2].fn = "update_message"
  /\ ~eff.calls[2].ok
  /\ ls.pc = "error"

\* the step is a click of the invoker on Resolve or Close that the store accepted
Written ==
  /\ eff'.op = "bug_event"
  /\ Len(eff'.calls) = 2
  /\ eff'.calls[1].fn = "change_bug_status"
  /\ eff'.calls[1].ok

\* the step is the first message of a detail view, for an authorized user and a
\* record that is not resolved or closed when it is read
OpenedOnOpenRecord ==
  /\ eff'.op = "bug"
  /\ Len(eff'.calls) = 2
  /\ eff'.calls[2].ok
  /\ db \notin Terminal
  /\ ds'[eff'.sess].authorized

\* C19: two detail sessions opened on the same record while its status is not
\* terminal both render the mutating controls and both may issue a status update;
\* every accepted update is stored whatever the record's status has become, so
\* the stored status is the one written last, and the session that wrote goes on
\* as after any update: its own message shows its own status and it ends normally.
C19_LastWriteWins ==
  [][ /\ OpenedOnOpenRecord
         => /\ Mutating(dmsg'[eff'.sess].controls) = MutatingIds
            /\ ds'[eff'.sess].pc = "waiting"
      /\ Written
         => /\ db' = eff'.calls[1].status
            /\ ds'[eff'.sess].status = eff'.calls[1].status
            /\ eff'.calls[2].ok
               => /\ ds'[eff'.sess].pc = "done"
                  /\ dmsg'[eff'.sess].status = eff'.calls[1].status
    ]_vars

\* both sessions have updated the record: session 1 resolved it, then session 2
\* closed it; the store holds closed and the message of session 1 shows resolved
C19_Witness ==
  /\ \A s \in Sessions : ds[s].pc = "done" /\ ds[s].updates = 1
  /\ dmsg[1].status = "resolved"
  /\ dmsg[2].status = "closed"
  /\ eff.op = "bug_event"
  /\ eff.sess = 2
  /\ db = "closed"

\* what session t can do next does not depend on the other sessions
CanStep(t) ==
  /\ ds[t].pc = "idle" => ENABLED BugStart(t)
  /\ (ds[t].pc = "waiting" /\ ds[t].timer > 0 /\ dq[t] # <<>>) => ENABLED BugEvent(t)

ListCanStep ==
  /\ ls.pc = "idle" => ENABLED BuglistStart
  /\ (ls.pc = "waiting" /\ ls.timer > 0 /\ lq # <<>>) => ENABLED ListEvent

\* the step of a session leaves the other sessions, their messages and the clicks
\* on their messages as they are
OwnSessionOnly ==
  /\ eff'.op \in {"bug", "bug_event"}
     => /\ \A t \in Sessions \ {eff'.sess} :
             ds'[t] = ds[t] /\ dmsg'[t] = dmsg[t] /\ dq'[t] = dq[t]
        /\ ls' = ls /\ lmsg' = lmsg /\ lq' = lq
  /\ eff'.op \in {"buglist", "list_event"}
     => ds' = ds /\ dmsg' = dmsg /\ dq' = dq

\* C20: with several sessions running at once, an event directed at the message
\* of one session is delivered to that session only: it never changes the page,
\* the snapshot or the position of another session; and a session that waits for
\* an event never keeps another session from its next step.
C20_SessionsIsolated ==
  /\ [](ListCanStep /\ \A t \in Sessions : CanStep(t))
  /\ [][OwnSessionOnly]_vars

\* session 1 waits with nothing to handle while session 2 handles a click
C20_Witness ==
  /\ eff.op = "bug_event"
  /\ eff.sess = 2
  /\ ds[1].pc = "waiting"
  /\ dq[1] = <<>>
  /\ Mutating(dmsg[1].controls) = MutatingIds

\* the step is a click of the invoker handled by the list loop
OwnerTurn(id) ==
  /\ eff'.op = "list_event"
  /\ ~NotOriginalUser(eff'.actor)
  /\ eff'.id = id

\* C21: over a whole list session the status filter, the edition filter, the
\* order and the page size of every fetch and render are the values parsed at the
\* start of the command; only the page number changes: by exactly 1 for a `next`
\* of the owner, by at most 1 for a `previous` of the owner, and not otherwise.
C21_OnlyPageChanges ==
  [][ /\ arg' = arg
      /\ ret'.fetched # NoFetch
         => /\ ret'.fetched.filter = arg.filter
            /\ ret'.fetched.limit = arg.limit
            /\ ret'.fetched.pageIdx + 1 = ls'.page
      /\ ret'.res \in {"Some", "None"}
         => /\ ret'.render.page = ls'.page
            /\ ret'.render.pages = Ceiling(Max(arg.total, 1), arg.limit)
            /\ ret'.render.body = "content_alt"
               => ret'.render.bodyLen = (IF arg.filter.status = "status" THEN 15 ELSE 27)
      /\ OwnerTurn("next_page") => ls'.page = ls.page + 1
      /\ OwnerTurn("previous_page") => ls.page - ls'.page \in {0, 1}
      /\ (ls.pc = "waiting" /\ ~OwnerTurn("next_page") /\ ~OwnerTurn("previous_page"))
         => ls'.page = ls.page
    ]_vars

\* a list of the legacy bugs of one status, lowest priority first, is back on its
\* first page after `next` and `previous`
C21_Witness ==
  /\ eff.op = "list_event"
  /\ eff.actor = Author
  /\ eff.id = "previous_page"
  /\ ret.res = "None"
  /\ ls.page = 1
  /\ ret.fetched.filter = [status |-> "status", legacy |-> "legacy", order |-> "lowest"]
  /\ ret.fetched.limit = arg.limit

\* calls that put a message of the bot into the channel, for everyone to see
ChannelFns == {"send_message", "reply_failure", "reply_success"}

\* the calls of the step, from the i-th on, that put a message into the channel
SentFrom(calls, i) == { j \in i .. Len(calls) : calls[j].fn \in ChannelFns }

\* C22: a list session sends exactly one message to the channel, the initial
\* render; every later successful re-render for a click of the owner is an update
\* of that message through the acknowledgment of the click, never a new message.
C22_OneListMessage ==
  [][ /\ (eff'.op = "buglist" /\ ls'.pc = "waiting")
         => /\ SentFrom(eff'.calls, 1) = {2}
            /\ eff'.calls[2].fn = "send_message"
            /\ lmsg' = ret'.render
      /\ eff'.op \in {"list_event", "list_expired"} => SentFrom(eff'.calls, 1) = {}
      /\ (eff'.op = "list_event" /\ ret'.res \in {"Some", "None"})
         => /\ ret'.res = "None"
            /\ Len(eff'.calls) = 2
            /\ eff'.calls[2].fn = "update_message"
            /\ eff'.calls[2].ok
            /\ lmsg' = ret'.render
    ]_vars

\* the second page is shown in the message that showed the first
C22_Witness ==
  /\ eff.op = "list_event"
  /\ eff.id = "next_page"
  /\ ret.res = "None"
  /\ eff.calls[2].fn = "update_message"
  /\ lmsg.page = 2
  /\ ls.pc = "waiting"

\* the last step was the bug command and it sent its message
DetailSent ==
  /\ eff.op = "bug"
  /\ Len(eff.calls) = 2
  /\ eff.calls[2].fn = "send_message"
  /\ eff.calls[2].ok

\* C23: the detail loop is entered only when the initial render offered Resolve
\* and Close; when the status of the record is Resolved or Closed, or the invoker
\* is not authorized, the bug command subscribes to no event and issues no status
\* update.
C23_LoopOnlyWithControls ==
  /\ \A s \in Sessions :
       /\ ds[s].pc = "waiting"
          => /\ Mutating(dmsg[s].controls) = MutatingIds
             /\ ds[s].authorized
             /\ ds[s].status \notin Terminal
       /\ ds[s].updates > 0 => ds[s].authorized
  /\ eff.op \in {"bug_event", "bug_expired"} => ds[eff.sess].authorized
  /\ (DetailSent /\ (eff.calls[1].status \in Terminal \/ ~ds[eff.sess].authorized))
     => /\ ds[eff.sess].pc = "done"
        /\ ds[eff.sess].updates = 0
        /\ Mutating(dmsg[eff.sess].controls) = {}
        /\ dq[eff.sess] = <<>>

\* an authorized user looks at a closed record: the command returns at once
C23_Witness ==
  /\ DetailSent
  /\ eff.calls[1].status = "closed"
  /\ ds[eff.sess].authorized
  /\ ds[eff.sess].pc = "done"

\* C24 (as claimed): for every invocation of the list command, also one with an
\* explicit page-size override, the page size used for the fetch, for the
\* out-of-range check and for the division of the footer is at least 1.
C24_PageSizeAtLeastOne ==
  (eff.op \in {"buglist", "list_event"} /\ ret.fetched # NoFetch)
  => ret.fetched.limit >= 1

\* C25 (as claimed): across detail sessions and status commands on the same
\* record, in every reachable state a detail message displays Resolve/Close only
\* while the status of the record in the store is neither Resolved nor Closed.
C25_ControlsOnlyWhileStoreOpen ==
  \A s \in Sessions : Mutating(dmsg[s].controls) # {} => db \notin Terminal

\* C25 (amended): in every reachable state a detail message displays
\* Resolve/Close only while the status that the message itself displays, read
\* from the store when the command started, is neither Resolved nor Closed, and
\* only for an authorized invoker; the status in the store may differ.
C25_ControlsOnlyWhileShownOpen ==
  \A s \in Sessions :
    Mutating(dmsg[s].controls) # {}
    => /\ dmsg[s].status \notin Terminal
       /\ ds[s].authorized
       /\ Mutating(dmsg[s].controls) = MutatingIds

\* `!resolve` has resolved the record while its detail message offers Resolve
C25_Witness ==
  /\ eff.op = "resolve"
  /\ db = "resolved"
  /\ ds[1].pc = "waiting"
  /\ dmsg[1].status \notin Terminal
  /\ Mutating(dmsg[1].controls) = MutatingIds

\* no click is made in the step
NoNewEvent ==
  /\ Len(lq') <= Len(lq)
  /\ \A s \in Sessions : Len(dq'[s]) <= Len(dq[s])

\* every command of the run has returned (or was never invoked)
AllReturned ==
  /\ ls.pc \in Ended \cup {"absent"}
  /\ \A s \in Sessions : ds[s].pc \in Ended \cup {"absent"}

\* C26: when time passes and every task that can go on does, and only finitely
\* many clicks are made on the message of a session, every list session and every
\* detail session ends: the command returns.
C26_SessionsTerminate == <>[][NoNewEvent]_vars => <>[]AllReturned

\* a list session that handled a click has ended by expiry
C26_Witness ==
  /\ eff.op = "list_expired"
  /\ ls.pc = "done"
  /\ ls.age > TimeoutSecs

\* C27 (as claimed): whenever a list session has ended, by any path (expiry, page
\* out of range after a click, content too large after a click, or a failed
\* call), the list message no longer carries navigation controls.
C27_EndedWithoutControls ==
  ls.pc \in Ended => lmsg.controls = {}

\* C28 (as claimed): for all page >= 1 and limit >= 1 of 32 unsigned bits the
\* products (page-1)*limit and page*limit do not overflow, so that display_bugs
\* does not panic on them, and its out-of-range check and the disabled flag of
\* `next` are the same comparisons over unbounded integers.
C28_NoOverflow ==
  ( /\ ret.res \notin {"pending", "db_error"}
    /\ arg.page >= 1 /\ arg.limit >= 1 )
  => /\ ret.res # "panic"
     /\ PageTooHigh(arg.page, arg.limit, arg.total)
          <=> (arg.page - 1) * arg.limit >= arg.total
     /\ Rendered => ( NextDisabled(arg.page, arg.limit, arg.total)
                        <=> arg.page * arg.limit >= arg.total )

\* -------------------------------------- the redirect policy of the wiki client

\* const WIKI_DOMAIN
WIKI_DOMAIN == "lotrminecraftmod.fandom.com"

\* the chain length beyond which the policy gives up
MaxPrevious == 5

\* Url::host_str(): Option<&str>, with one host that is not the wiki
Hosts == {WIKI_DOMAIN, "elsewhere.example", "None"}
\* two addresses of a host
Paths == {"/a", "/b"}
Urls == [host : Hosts, path : Paths]

\* a policy that looks at the length of the chain only
FollowAnyHost(previous, url) ==
  IF Len(previous) > MaxPrevious
  THEN "error"
  ELSE "follow"

\* redirect::Policy::custom(|attempt| ...)
custom_redirect_policy(previous, url) ==
  IF Len(previous) > MaxPrevious
  THEN "error"
  ELSE IF url.host # WIKI_DOMAIN
  THEN "stop"
  ELSE "follow"

\* the client sends a request: no url has been visited before it
RedirectInit ==
  /\ arg \in [ previous : {<<>>}, url : { u \in Urls : u.host # "None" } ]
  /\ ret = Pending
  /\ ls = NoListSession
  /\ lmsg = NoRender
  /\ lq = <<>>
  /\ db = "low"
  /\ ds = [s \in Sessions |-> NoDetailSession]
  /\ dmsg = [s \in Sessions |-> NoDetailMessage]
  /\ dq = [s \in Sessions |-> <<>>]
  /\ eff = Eff("init", 0, "-", "-", <<>>)

\* the server answers the request for arg.url with a redirect to `to`: the
\* client asks the policy, with the urls visited so far, and requests `to` only
\* when the policy says follow
RedirectAttempt ==
  /\ ret.res \in {"pending", "follow"}
  /\ \E to \in Urls :
       LET previous == Append(arg.previous, arg.url)
           action   == custom_redirect_policy(previous, to)
       IN
       /\ ret' = Outcome(action, <<>>, NoRender, NoFetch)
       /\ arg' = [previous |-> previous, url |-> to]
       /\ eff' = Eff("redirect", 0, "-", "-", <<>>)
  /\ UNCHANGED <<ls, lmsg, lq, db, ds, dmsg, dq>>

\* the server answers the request for arg.url with a response that is no redirect
FinalResponse ==
  /\ ret.res \in {"pending", "follow"}
  /\ ret' = Outcome("response", <<>>, NoRender, NoFetch)
  /\ eff' = Eff("response", 0, "-", "-", <<>>)
  /\ UNCHANGED <<arg, ls, lmsg, lq, db, ds, dmsg, dq>>

RedirectNext == RedirectAttempt \/ FinalResponse

SpecRedirect == RedirectInit /\ [][RedirectNext]_vars

\* C29: for every redirect attempt the outcome is error if more than 5 urls have
\* been visited in the chain, else stop if the host of the target is not the
\* wiki domain, else follow; so the client never requests a redirect target on
\* another host, and never one after more than 5 visited urls.
C29_RedirectPolicy ==
  [][ eff'.op = "redirect"
      => /\ Len(arg'.previous) > 5 => ret'.res = "error"
         /\ Len(arg'.previous) <= 5 /\ arg'.url.host # WIKI_DOMAIN => ret'.res = "stop"
         /\ Len(arg'.previous) <= 5 /\ arg'.url.host = WIKI_DOMAIN => ret'.res = "follow"
         /\ ret'.res = "follow"
              => arg'.url.host = WIKI_DOMAIN /\ Len(arg'.previous) <= 5 ]_vars

\* a chain of wiki urls is cut at a redirect that leaves the wiki
C29_Witness ==
  /\ eff.op = "redirect"
  /\ ret.res = "stop"
  /\ Len(arg.previous) = 5
  /\ arg.url.host = "elsewhere.example"
  /\ \A i \in 2 .. Len(arg.previous) : arg.previous[i].host = WIKI_DOMAIN

\* ------------------------------------------------------------- parse_motd

\* longest motd of the runs
MaxMotdLen == 5

\* the match on the character after a section sign
ColourCodes == {"7", "r"}
StyleCodes == {"l", "n", "m", "o"}
\* the characters of a motd: the section sign, one colour and the reset code,
\* the four style codes, and a character that is no code
Chars == {"§"} \cup ColourCodes \cup StyleCodes \cup {"x"}
Motds == UNION { [1 .. n -> Chars] : n \in 0 .. MaxMotdLen }

\* what res holds: a character of the input, or a marker pushed when a style
\* opens or when the stack is drained
Plain(c) == [kind |-> "char", text |-> c]
Opener(s) == [kind |-> "open", text |-> s]
Closer(s) == [kind |-> "close", text |-> s]
ZeroWidthSpace == Plain("u200B")

\* the arms 'l', 'n', 'm', 'o'
Marker(c) ==
  CASE c = "l" -> "**"
    [] c = "n" -> "__"
    [] c = "m" -> "~~"
    [] c = "o" -> "*"

\* Iterator::rev
RECURSIVE Rev(_)
Rev(seq) == IF seq = <<>> THEN <<>> ELSE Append(Rev(Tail(seq)), Head(seq))

\* a drain that pushes the markers in the order they were opened
DrainInOrder(stack) == [i \in 1 .. Len(stack) |-> Closer(stack[i])]

\* stack.drain(..).rev().for_each(|s| res.push_str(s)): what is pushed to res;
\* the stack is empty afterwards
Drain(stack) == [i \in 1 .. Len(stack) |-> Closer(Rev(stack)[i])]

\* the body of the for loop, for the characters from position i on, and the
\* drain after it; it yields res and the stack as the function leaves it
RECURSIVE ParseFrom(_, _, _, _, _)
ParseFrom(motd, i, res, stack, is_token) ==
  IF i > Len(motd)
  THEN [res |-> res \o Drain(stack), stack |-> <<>>]
  ELSE LET c == motd[i] IN
       IF c = "§"
       THEN ParseFrom(motd, i + 1, res, stack, TRUE)
       ELSE IF is_token
       THEN IF c \in ColourCodes
            THEN IF stack # <<>>
                 THEN ParseFrom(motd, i + 1, (res \o Drain(stack)) \o <<ZeroWidthSpace>>,
                                <<>>, FALSE)
                 ELSE ParseFrom(motd, i + 1, res, stack, FALSE)
            ELSE IF c \in StyleCodes
            THEN ParseFrom(motd, i + 1, Append(res, Opener(Marker(c))),
                           Append(stack, Marker(c)), FALSE)
            ELSE ParseFrom(motd, i + 1, res \o <<Plain("§"), Plain(c)>>, stack, FALSE)
       ELSE ParseFrom(motd, i + 1, Append(res, Plain(c)), stack, FALSE)

parse_motd(motd) == ParseFrom(motd, 1, <<>>, <<>>, FALSE)

MotdInit ==
  /\ arg \in [ motd : Motds ]
  /\ ret = Pending
  /\ ls = NoListSession
  /\ lmsg = NoRender
  /\ lq = <<>>
  /\ db = "low"
  /\ ds = [s \in Sessions |-> NoDetailSession]
  /\ dmsg = [s \in Sessions |-> NoDetailMessage]
  /\ dq = [s \in Sessions |-> <<>>]
  /\ eff = Eff("init", 0, "-", "-", <<>>)

\* format!("{}\n\n", parse_motd(motd))
MotdCall ==
  /\ eff.op = "init"
  /\ ret' = parse_motd(arg.motd)
  /\ eff' = Eff("parse_motd", 0, "-", "-", <<>>)
  /\ UNCHANGED <<arg, ls, lmsg, lq, db, ds, dmsg, dq>>

MotdNext == MotdCall

SpecMotd == MotdInit /\ [][MotdNext]_vars

\* the character at position i of the motd is read as a code: the character
\* before it is a section sign and it is none itself
IsCodeAt(motd, i) == i > 1 /\ motd[i - 1] = "§" /\ motd[i] # "§"

StylePositions(motd) == { i \in 1 .. Len(motd) : IsCodeAt(motd, i) /\ motd[i] \in StyleCodes }

ColourPositions(motd) == { i \in 1 .. Len(motd) : IsCodeAt(motd, i) /\ motd[i] \in ColourCodes }

\* the colour and reset codes that find a style open: one was opened before
\* them and no other colour or reset code lies between
ClosingColours(motd) ==
  { j \in ColourPositions(motd) :
      \E i \in StylePositions(motd) :
        /\ i < j
        /\ \A k \in ColourPositions(motd) : ~(i < k /\ k < j) }

ItemsOf(out, kind) == { i \in 1 .. Len(out) : out[i].kind = kind }

\* from item i on, with the markers in `open` opened and not yet closed: every
\* closer closes the marker opened last, a closer is followed by the closers of
\* all the markers still open, the last of them by the zero width space or by
\* the end of the text, and no marker is open at the end
RECURSIVE ClosedInReverse(_, _, _)
ClosedInReverse(out, i, open) ==
  IF i > Len(out)
  THEN open = <<>>
  ELSE IF out[i].kind = "open"
  THEN ClosedInReverse(out, i + 1, Append(open, out[i].text))
  ELSE IF out[i].kind = "close"
  THEN /\ open # <<>>
       /\ open[Len(open)] = out[i].text
       /\ IF Len(open) > 1
          THEN i < Len(out) /\ out[i + 1].kind = "close"
          ELSE i = Len(out) \/ out[i + 1] = ZeroWidthSpace
       /\ ClosedInReverse(out, i + 1, SubSeq(open, 1, Len(open) - 1))
  ELSE ClosedInReverse(out, i + 1, open)

\* C30: for every motd, each marker opened by a style code (l, n, m, o) is
\* closed exactly once, in reverse order of opening, at the next colour or reset
\* code or at the end of the input: the text has one opener for each style code
\* and as many closers, every closer closes the marker opened last, all open
\* markers are closed together, once for each colour or reset code that finds
\* one open and once at the end, and the stack is empty when parse_motd returns.
C30_MarkersClosed ==
  eff.op = "parse_motd"
  => /\ ret.stack = <<>>
     /\ Cardinality(ItemsOf(ret.res, "open")) = Cardinality(StylePositions(arg.motd))
     /\ Cardinality(ItemsOf(ret.res, "close")) = Cardinality(ItemsOf(ret.res, "open"))
     /\ ClosedInReverse(ret.res, 1, <<>>)
     /\ Cardinality({ i \in 1 .. Len(ret.res) : ret.res[i] = ZeroWidthSpace })
          = Cardinality(ClosingColours(arg.motd))

\* bold, then underline, then text: both are closed at the end, underline first
C30_Witness ==
  /\ eff.op = "parse_motd"
  /\ arg.motd = <<"§", "l", "§", "n", "x">>
  /\ ret.res = <<Opener("**"), Opener("__"), Plain("x"), Closer("__"), Closer("**")>>
  /\ ret.stack = <<>>

\* the reply target of the display_bugs call of the last step: buglist passes
\* the command message, the loop the interaction of the click
TargetOfCall == IF eff.op = "buglist" THEN "Message" ELSE "Interaction"

\* C31: a display_bugs that succeeds returns a message (Some) if and only if its
\* reply target is the command message, and None if and only if the target is
\* an interaction; so the first display_bugs of buglist never returns Ok(None),
\* and buglist reaches its unreachable!() never.
C31_SomeIffMessage ==
  /\ ( eff.op \in {"buglist", "list_event"} /\ Rendered )
     => /\ ret.res = "Some" <=> TargetOfCall = "Message"
        /\ ret.res = "None" <=> TargetOfCall = "Interaction"
  /\ eff.op = "buglist"
     => /\ ret.res # "None"
        /\ ls.pc = "panic" => ret.res = "panic"

\* the list message was sent, and a click of the owner has updated it
C31_Witness ==
  /\ eff.op = "list_event"
  /\ eff.actor = Author
  /\ ret.res = "None"
  /\ ls.pc = "waiting"
  /\ lmsg = ret.render

\* C32: in the detail loop every event of the owner carries the identifier
\* resolve_bug or close_bug: the detail message never carries another control
\* whose click is an event (its only other control is the link button), so no
\* click on its way and no event the loop handles has another identifier, and
\* the unreachable!() of the match on the identifier is never executed.
C32_OnlyResolveOrClose ==
  /\ \A s \in Sessions :
       /\ { c.id : c \in dmsg[s].controls } \subseteq {"message_link", "resolve_bug", "close_bug"}
       /\ \A i \in 1 .. Len(dq[s]) : dq[s][i].id \in {"resolve_bug", "close_bug"}
       /\ ds[s].pc # "panic"
  /\ eff.op = "bug_event" => eff.id \in {"resolve_bug", "close_bug"}

\* the owner has closed the record from a message that carries a link button too
C32_Witness ==
  /\ eff.op = "bug_event"
  /\ eff.actor = Author
  /\ eff.id = "close_bug"
  /\ ds[eff.sess].pc = "done"
  /\ ds[eff.sess].status = "closed"
  /\ { c.id : c \in dmsg[eff.sess].controls } = {"message_link"}

\* C33 (as claimed): the detail loop listens to interactions for 120 seconds: a
\* detail session that waits and has had no event for less than 120 seconds
\* still listens, and one that ends by expiry has had none for 120 seconds.
C33_ListensFor120Seconds ==
  /\ \A s \in Sessions :
       ds[s].pc = "waiting" /\ ds[s].idle < 120 => ds[s].timer > 0
  /\ eff.op = "bug_expired" => ds[eff.sess].idle >= 120

====
